---- MODULE Spec2Model ----
(***************************************************************************)
(* PicoGRAM: the AS-Waksman oblivious permutation driver                   *)
(* (utils/waksman.hpp) and the two-party ORAM test harness                 *)
(* (tests/test_emp_interface.cpp).                                         *)
(*                                                                         *)
(* Vectors are functions over 0..N-1, as the C++ vectors are 0-based.      *)
(***************************************************************************)
EXTENDS Integers, Naturals, Sequences, FiniteSets, TLC

(***************************************************************************)
(* Bounds of the model.                                                    *)
(***************************************************************************)
\* largest number of packets routed with a bijective permutation
MaxN == 5
\* largest number of packets for which every (also non-bijective) index
\* list, and every index list of a different length, is tried
MaxBadN == 3

Rows(n) == 0 .. (n - 1)

\* F applied to the value of v, which is computed once
Eval(v, F(_)) == CHOOSE r \in { F(x) : x \in {v} } : TRUE

(***************************************************************************)
(* integer_permutation (integer_permutation.hpp, not part of the sources). *)
(***************************************************************************)
\* integer_permutation::is_valid: every image in range, no image twice
is_valid(p, n) ==
    /\ DOMAIN p = Rows(n)
    /\ \A i \in Rows(n) : p[i] \in Rows(n)
    /\ \A i, j \in Rows(n) : p[i] = p[j] => i = j

\* integer_permutation::inverse
inverse(p) == [j \in DOMAIN p |-> CHOOSE i \in DOMAIN p : p[i] = j]

(***************************************************************************)
(* Topology (declared in waksman.hpp:105-122).                             *)
(***************************************************************************)
RECURSIVE CeilLog2(_)
CeilLog2(n) == IF n <= 1 THEN 0 ELSE 1 + CeilLog2((n + 1) \div 2)

as_waksman_num_columns(num_packets) ==
    IF num_packets > 1 THEN 2 * CeilLog2(num_packets) - 1 ELSE 0

as_waksman_top_height(num_packets) == num_packets \div 2

\* the row of the sub-network column a switch port is wired to
as_waksman_switch_output(num_packets, row_offset, row_idx, use_top) ==
    row_offset + ((row_idx - row_offset) \div 2)
        + (IF use_top THEN 0 ELSE as_waksman_top_height(num_packets))

\* The destinations every sub-network input must be wired to once the outer
\* right column is placed: new_rhs_dests[p] = the right-column row fed by p.
NewRhsDests(lo, hi) ==
    LET size == hi - lo + 1
    IN [p \in lo .. hi |->
          IF size % 2 = 1 /\ p = hi THEN hi
          ELSE CHOOSE r \in lo .. hi :
                 LET c == lo + (((r - lo) \div 2) * 2)
                 IN /\ c + 1 <= hi
                    /\ p = as_waksman_switch_output(size, lo, c, r = c)]

\* The cells <<column, row>> |-> <<first, second>> of the sub-network that
\* occupies columns left..right and rows lo..hi and whose outputs are wired
\* to rhs_dests.
RECURSIVE construct_as_waksman_inner(_, _, _, _, _)
construct_as_waksman_inner(left, right, lo, hi, rhs_dests) ==
    LET size  == hi - lo + 1
        width == as_waksman_num_columns(size)
        d     == as_waksman_top_height(size)
        ident == [p \in lo .. hi |-> p]
    IN IF left > right THEN << >>
       ELSE IF right - left + 1 > width THEN
         \* more columns than needed: straight wires on both sides
         LET leftCol  == [cell \in {left} \X (lo .. hi) |-> <<cell[2], cell[2]>>]
             rightCol == [cell \in {right} \X (lo .. hi) |->
                             <<rhs_dests[cell[2]], rhs_dests[cell[2]]>>]
         IN rightCol @@ leftCol
              @@ construct_as_waksman_inner(left + 1, right - 1, lo, hi, ident)
       ELSE IF size = 2 THEN
         (<<left, lo>> :> <<rhs_dests[lo], rhs_dests[hi]>>)
           @@ (<<left, hi>> :> <<rhs_dests[hi], rhs_dests[lo]>>)
       ELSE
         LET leftCol == [cell \in {left} \X (lo .. hi) |->
                 LET r == cell[2]
                     c == lo + (((r - lo) \div 2) * 2)
                 IN IF c + 1 > hi THEN <<hi, hi>>
                    ELSE <<as_waksman_switch_output(size, lo, c, r = c),
                           as_waksman_switch_output(size, lo, c, r # c)>>]
             rightCol == [cell \in {right} \X (lo .. hi) |->
                 LET r == cell[2]
                     c == lo + (((r - lo) \div 2) * 2)
                 IN IF c + 1 > hi THEN <<rhs_dests[hi], rhs_dests[hi]>>
                    ELSE IF r = c THEN <<rhs_dests[c], rhs_dests[c + 1]>>
                    ELSE <<rhs_dests[c + 1], rhs_dests[c]>>]
         IN Eval(NewRhsDests(lo, hi), LAMBDA new_rhs :
              leftCol @@ rightCol
                @@ construct_as_waksman_inner(left + 1, right - 1, lo, lo + d - 1,
                       [p \in lo .. (lo + d - 1) |-> new_rhs[p]])
                @@ construct_as_waksman_inner(left + 1, right - 1, lo + d, hi,
                       [p \in (lo + d) .. hi |-> new_rhs[p]]))

\* topology[column_idx][row_idx] = <<straight destination, cross destination>>
generate_as_waksman_topology(num_packets) ==
    LET width == as_waksman_num_columns(num_packets)
    IN Eval(construct_as_waksman_inner(0, width - 1, 0, num_packets - 1,
                                       [p \in Rows(num_packets) |-> p]),
            LAMBDA cells :
              [c \in Rows(width) |->
                  [r \in Rows(num_packets) |-> cells[<<c, r>>]]])

(***************************************************************************)
(* Router and validator (declared in waksman.hpp:124-134).                 *)
(***************************************************************************)
\* the row of the top port of the switch that occupies row_idx
get_canonical_row_idx(row_offset, row_idx) ==
    (((row_idx - row_offset) \div 2) * 2) + row_offset

\* a slip: the setting does not look at the port the packet is on
SettingIgnoresPort(row_offset, packet_idx, use_top) == ~use_top

\* straight (FALSE) joins the top port to the upper sub-network
get_switch_setting_from_top_bottom_decision(row_offset, packet_idx, use_top) ==
    (packet_idx = get_canonical_row_idx(row_offset, packet_idx)) # use_top

get_top_bottom_decision_from_switch_setting(row_offset, packet_idx, switch_setting) ==
    (packet_idx = get_canonical_row_idx(row_offset, packet_idx)) # switch_setting

\* the other port of the switch that occupies packet_idx
other_position(row_offset, packet_idx) ==
    LET row_idx == get_canonical_row_idx(row_offset, packet_idx)
    IN (1 - (packet_idx - row_idx)) + row_idx

Lookup(m, k, default) == IF k \in DOMAIN m THEN m[k] ELSE default

\* One step of the alternating traversal: route the packet to_route forward
\* (route_left) or back from the right column, fixing the switch it forces.
RouteStep(s, lo, hi, permutation, permutation_inv) ==
    LET size == hi - lo + 1
    IN IF s.route_left THEN
         LET lhs_switch == get_canonical_row_idx(lo, s.to_route)
             \* a switch not yet assigned is set straight
             lhs_switch_setting == Lookup(s.lhs, lhs_switch, FALSE)
             use_top == get_top_bottom_decision_from_switch_setting(
                            lo, s.to_route, lhs_switch_setting)
             t == as_waksman_switch_output(size, lo, lhs_switch, use_top)
             dest == permutation[s.to_route]
             lhs1 == (lhs_switch :> lhs_switch_setting) @@ s.lhs
         IN IF size % 2 = 1 /\ dest = hi THEN
              \* arrived at the straight wire of an odd network
              [s EXCEPT !.lhs = lhs1,
                        !.new_permutation = (t :> hi) @@ @,
                        !.lhs_routed = @ \cup {s.to_route}]
            ELSE
              LET rhs_switch == get_canonical_row_idx(lo, dest)
                  tprime == as_waksman_switch_output(size, lo, rhs_switch, use_top)
              IN [s EXCEPT !.lhs = lhs1,
                           !.rhs = (rhs_switch :>
                               get_switch_setting_from_top_bottom_decision(
                                   lo, dest, use_top)) @@ @,
                           !.new_permutation = (t :> tprime) @@ @,
                           !.lhs_routed = @ \cup {s.to_route},
                           !.to_route = other_position(lo, dest),
                           !.route_left = FALSE]
       ELSE
         LET rhs_switch == get_canonical_row_idx(lo, s.to_route)
             src == permutation_inv[s.to_route]
             lhs_switch == get_canonical_row_idx(lo, src)
             rhs_switch_setting == s.rhs[rhs_switch]
             use_top == get_top_bottom_decision_from_switch_setting(
                            lo, s.to_route, rhs_switch_setting)
             lhs_switch_setting == get_switch_setting_from_top_bottom_decision(
                                       lo, src, use_top)
             t == as_waksman_switch_output(size, lo, lhs_switch, use_top)
             tprime == as_waksman_switch_output(size, lo, rhs_switch, use_top)
         IN [s EXCEPT !.lhs = (lhs_switch :> lhs_switch_setting) @@ @,
                      !.new_permutation = (t :> tprime) @@ @,
                      !.lhs_routed = @ \cup {src},
                      !.to_route = other_position(lo, src),
                      !.route_left = TRUE]

\* Repeat RouteStep; when the traversal closes, restart at the unrouted
\* packet of lowest index; stop when every packet is routed.
RECURSIVE RouteLoop(_, _, _, _, _)
RouteLoop(s, lo, hi, permutation, permutation_inv) ==
    Eval(RouteStep(s, lo, hi, permutation, permutation_inv), LAMBDA s1 :
      LET unrouted == (lo .. hi) \ s1.lhs_routed
      IN IF ~s1.route_left \/ s1.to_route \notin s1.lhs_routed
           THEN RouteLoop(s1, lo, hi, permutation, permutation_inv)
         ELSE IF unrouted = {} THEN s1
         ELSE Eval([s1 EXCEPT !.to_route =
                       CHOOSE p \in unrouted : \A q \in unrouted : p <= q],
                   LAMBDA s2 :
                     RouteLoop(s2, lo, hi, permutation, permutation_inv)))

\* The state the traversal starts from. In an odd network the bottom wire is
\* no switch port: it is routed first, through the lower sub-network.
RouteStart(lo, hi, permutation) ==
    LET size == hi - lo + 1
        none == [x \in {} |-> FALSE]
    IN IF size % 2 = 1 THEN
         IF permutation[hi] = hi THEN
           [lhs |-> none, rhs |-> none, new_permutation |-> (hi :> hi),
            lhs_routed |-> {hi}, to_route |-> lo, route_left |-> TRUE]
         ELSE
           LET rhs_switch == get_canonical_row_idx(lo, permutation[hi])
               tprime == as_waksman_switch_output(size, lo, rhs_switch, FALSE)
           IN [lhs |-> none,
               rhs |-> (rhs_switch :>
                   get_switch_setting_from_top_bottom_decision(
                       lo, permutation[hi], FALSE)),
               new_permutation |-> (hi :> tprime),
               lhs_routed |-> {hi},
               to_route |-> other_position(lo, permutation[hi]),
               route_left |-> FALSE]
       ELSE
         [lhs |-> none, rhs |-> none, new_permutation |-> none,
          lhs_routed |-> {}, to_route |-> lo, route_left |-> TRUE]

\* The switch settings <<column, canonical row>> |-> cross? of the
\* sub-network on columns left..right, rows lo..hi, for a permutation of
\* lo..hi.
RECURSIVE as_waksman_route_inner(_, _, _, _, _)
as_waksman_route_inner(left, right, lo, hi, permutation) ==
    LET size  == hi - lo + 1
        width == as_waksman_num_columns(size)
        d     == as_waksman_top_height(size)
    IN IF left > right THEN << >>
       ELSE IF right - left + 1 > width THEN
         as_waksman_route_inner(left + 1, right - 1, lo, hi, permutation)
       ELSE IF size = 2 THEN
         (<<left, lo>> :> (permutation[lo] # lo))
       ELSE
         Eval(inverse(permutation), LAMBDA permutation_inv :
         Eval(RouteStart(lo, hi, permutation), LAMBDA s0 :
         Eval(RouteLoop(s0, lo, hi, permutation, permutation_inv), LAMBDA s :
           [cell \in {left} \X DOMAIN s.lhs |-> s.lhs[cell[2]]]
             @@ [cell \in {right} \X DOMAIN s.rhs |-> s.rhs[cell[2]]]
             @@ as_waksman_route_inner(left + 1, right - 1, lo, lo + d - 1,
                    [p \in lo .. (lo + d - 1) |-> s.new_permutation[p]])
             @@ as_waksman_route_inner(left + 1, right - 1, lo + d, hi,
                    [p \in (lo + d) .. hi |-> s.new_permutation[p]]))))

\* routing[column_idx] = the map canonical row |-> cross? of that column
get_as_waksman_routing(permutation) ==
    LET num_packets == Cardinality(DOMAIN permutation)
        width == as_waksman_num_columns(num_packets)
    IN Eval(as_waksman_route_inner(0, width - 1, 0, num_packets - 1,
                                   permutation),
            LAMBDA cells :
              [c \in Rows(width) |->
                 [r \in { x \in Rows(num_packets) : <<c, x>> \in DOMAIN cells }
                    |-> cells[<<c, r>>]]])

\* One column of the validator's simulation: the packet on row packet_idx
\* moves to the destination its switch's setting selects.
ValidatorColumn(topo_col, routing_col, curperm) ==
    LET n == Cardinality(DOMAIN curperm)
        routed(packet_idx) ==
            IF topo_col[packet_idx][1] = topo_col[packet_idx][2]
              THEN topo_col[packet_idx][1]
            ELSE LET switch_setting ==
                       IF packet_idx \in DOMAIN routing_col
                         THEN routing_col[packet_idx]
                       ELSE Lookup(routing_col, packet_idx - 1, FALSE)
                 IN IF switch_setting THEN topo_col[packet_idx][2]
                    ELSE topo_col[packet_idx][1]
    IN [dst \in Rows(n) |->
          LET from == { p \in Rows(n) : routed(p) = dst }
          IN IF from = {} THEN -1
             ELSE curperm[CHOOSE p \in from : \A q \in from : q <= p]]

RECURSIVE ValidatorRun(_, _, _, _)
ValidatorRun(topology, routing, curperm, column_idx) ==
    IF column_idx >= Cardinality(DOMAIN topology) THEN curperm
    ELSE Eval(ValidatorColumn(topology[column_idx], routing[column_idx],
                              curperm),
              LAMBDA nextperm :
                ValidatorRun(topology, routing, nextperm, column_idx + 1))

\* the network, set by routing, moves packet i to row permutation[i]
valid_as_waksman_routing(permutation, routing) ==
    LET num_packets == Cardinality(DOMAIN permutation)
    IN Eval(generate_as_waksman_topology(num_packets), LAMBDA topology :
         /\ DOMAIN routing = DOMAIN topology
         /\ ValidatorRun(topology, routing,
                         [i \in Rows(num_packets) |-> i], 0)
              = inverse(permutation))

(***************************************************************************)
(* Capabilities the driver consumes.                                       *)
(***************************************************************************)
\* the assertion macros of util.hpp: TRUE iff execution continues; a failed
\* assertion ends the call with an error
Assertion(cond) == cond

\* the plaintext conditional swap: <<a, b>> after cond_swap(control, a, b)
cond_swap(control, a, b) == IF control THEN <<b, a>> ELSE <<a, b>>

(***************************************************************************)
(* The oblivious permutation driver, waksman_permute_vector                *)
(* (waksman.hpp:140-204).                                                  *)
(***************************************************************************)
Party == {"Garbler", "Evaluator"}

VARIABLES
    num_packets,          \* input_vector.size(), the same for both parties
    pc,                   \* per party: position in waksman_permute_vector
    input_vector,         \* per party: the argument input_vector
    permutation_indices,  \* per party: the argument permutation_indices
    topology,             \* per party: local topology
    routing,              \* per party: local routing (<< >> when empty)
    valid,                \* per party: result of the validator, or "not run"
    ran,                  \* per party: which of "router", "validator" ran
    current_vector,       \* per party: local current_vector
    next_vector,          \* per party: local next_vector
    column_idx,           \* per party: loop counter of the column loop
    writes,               \* per party: writes to each next_vector slot
                          \*   during the column executed last
    trace,                \* per party: the cond_swap calls made so far,
                          \*   <<column_idx, top_idx, is_cross>> each
    error                 \* per party: "none" or the failure of the call

driverVars == <<num_packets, pc, input_vector, permutation_indices, topology,
                routing, valid, ran, current_vector, next_vector, column_idx,
                writes, trace, error>>

\* The test process of tests/test_emp_interface.cpp
VARIABLES
    installed_Delta,      \* the process-wide offset; 0 while none is installed
    tests_run,            \* the number of PicoGRAMTester objects constructed
    hpc,                  \* position of the running test
    tester,               \* the fields of the PicoGRAMTester of the test
    garbled,              \* accesses made by garble(); it fills
                          \*   tester.old_data_labels
    evaluated,            \* accesses made by eval()
    oram_mem,             \* the words held by the ORAM
    old_data,             \* the Word the last access returned to eval()
    ref_old_data          \* the Word eval() compared it with

harnessVars == <<installed_Delta, tests_run, hpc, tester, garbled, evaluated,
                 oram_mem, old_data, ref_old_data>>

vars == <<driverVars, harnessVars>>

\* a slip: one column too many
LoopCondInclusive(c, n) == c <= as_waksman_num_columns(n)

\* the loop condition of the column loop (line 177)
LoopCond(c, n) == c < as_waksman_num_columns(n)

\* a slip: the routing read at the bottom port of the switch
IsCrossBottomKey(r, c, top_idx) ==
    IF r # << >> THEN Lookup(r[c], top_idx + 1, FALSE) ELSE FALSE

\* a slip: cross, not straight, when there is no routing
IsCrossDefaultTrue(r, c, top_idx) ==
    IF r # << >> THEN Lookup(r[c], top_idx, FALSE) ELSE TRUE

\* the switch mode read from the routing (line 191); routing[column_idx] is a
\* std::map, whose operator[] yields false for an absent key
IsCross(r, c, top_idx) ==
    IF r # << >> THEN Lookup(r[c], top_idx, FALSE) ELSE FALSE

Store(vec, cnt, slot, value) ==
    [vec |-> [vec EXCEPT ![slot] = value], cnt |-> [cnt EXCEPT ![slot] = @ + 1]]

\* Lines 184-186: the packet of a row no switch occupies moves on as it is.
\* s holds current_vector (cur), next_vector (nxt), the number of writes to
\* every next_vector slot (cnt), the cond_swap calls (trace) and whether
\* every assertion held (ok).
PassThrough(s, destinations_top, row_idx) ==
    LET w == Store(s.nxt, s.cnt, destinations_top[1], s.cur[row_idx])
    IN [s EXCEPT !.nxt = w.vec, !.cnt = w.cnt,
                 !.ok = @ /\ Assertion(destinations_top[1] = destinations_top[2])]

\* a slip: cond_swap is skipped when the switch is straight
SwitchSkipStraight(s, destinations_top, r, c, row_idx) ==
    LET top_idx == row_idx
        bottom_idx == row_idx + 1
        is_cross == IsCross(r, c, top_idx)
        sw == cond_swap(is_cross, s.cur[top_idx], s.cur[bottom_idx])
        cur1 == [s.cur EXCEPT ![top_idx] = sw[1], ![bottom_idx] = sw[2]]
        w1 == Store(s.nxt, s.cnt, destinations_top[1], cur1[top_idx])
        w2 == Store(w1.vec, w1.cnt, destinations_top[2], cur1[bottom_idx])
    IN [s EXCEPT !.cur = cur1, !.nxt = w2.vec, !.cnt = w2.cnt,
                 !.trace = IF is_cross THEN Append(@, <<c, top_idx, is_cross>>)
                           ELSE @]

\* a slip: both packets of a switch are stored at destinations_top.first
SwitchBothToFirst(s, destinations_top, r, c, row_idx) ==
    LET top_idx == row_idx
        bottom_idx == row_idx + 1
        is_cross == IsCross(r, c, top_idx)
        sw == cond_swap(is_cross, s.cur[top_idx], s.cur[bottom_idx])
        cur1 == [s.cur EXCEPT ![top_idx] = sw[1], ![bottom_idx] = sw[2]]
        w1 == Store(s.nxt, s.cnt, destinations_top[1], cur1[top_idx])
        w2 == Store(w1.vec, w1.cnt, destinations_top[1], cur1[bottom_idx])
    IN [s EXCEPT !.cur = cur1, !.nxt = w2.vec, !.cnt = w2.cnt,
                 !.trace = Append(@, <<c, top_idx, is_cross>>)]

\* a slip: the packets are stored before cond_swap has acted on them
SwitchStoreBeforeSwap(s, destinations_top, r, c, row_idx) ==
    LET top_idx == row_idx
        bottom_idx == row_idx + 1
        is_cross == IsCross(r, c, top_idx)
        sw == cond_swap(is_cross, s.cur[top_idx], s.cur[bottom_idx])
        cur1 == [s.cur EXCEPT ![top_idx] = sw[1], ![bottom_idx] = sw[2]]
        w1 == Store(s.nxt, s.cnt, destinations_top[1], s.cur[top_idx])
        w2 == Store(w1.vec, w1.cnt, destinations_top[2], s.cur[bottom_idx])
    IN [s EXCEPT !.cur = cur1, !.nxt = w2.vec, !.cnt = w2.cnt,
                 !.trace = Append(@, <<c, top_idx, is_cross>>)]

\* Lines 188-197: the switch on rows row_idx, row_idx + 1 of column c
Switch(s, destinations_top, r, c, row_idx) ==
    LET top_idx == row_idx
        bottom_idx == row_idx + 1
        is_cross == IsCross(r, c, top_idx)
        sw == cond_swap(is_cross, s.cur[top_idx], s.cur[bottom_idx])
        cur1 == [s.cur EXCEPT ![top_idx] = sw[1], ![bottom_idx] = sw[2]]
        w1 == Store(s.nxt, s.cnt, destinations_top[1], cur1[top_idx])
        w2 == Store(w1.vec, w1.cnt, destinations_top[2], cur1[bottom_idx])
    IN [s EXCEPT !.cur = cur1, !.nxt = w2.vec, !.cnt = w2.cnt,
                 !.trace = Append(@, <<c, top_idx, is_cross>>)]

\* The row loop of one column (lines 179-198), from row_idx on
RECURSIVE RowScan(_, _, _, _, _)
RowScan(s, topo_col, r, c, row_idx) ==
    LET n == Cardinality(DOMAIN s.cur)
        destinations_top == topo_col[row_idx]
    IN IF row_idx >= n THEN s
       ELSE IF row_idx = n - 1 \/ destinations_top[1] = destinations_top[2]
         THEN Eval(PassThrough(s, destinations_top, row_idx), LAMBDA s1 :
                RowScan(s1, topo_col, r, c, row_idx + 1))
       ELSE Eval(Switch(s, destinations_top, r, c, row_idx), LAMBDA s1 :
              RowScan(s1, topo_col, r, c, row_idx + 2))

\* a slip: the router runs before the permutation is checked
EntryRouteFirst(input, indices) ==
    LET n == Cardinality(DOMAIN input)
        topo == generate_as_waksman_topology(n)
        permutation == [i \in Rows(n) |-> indices[i]]
        fail(e, t, what) == [error |-> e, topology |-> t, routing |-> << >>,
                             valid |-> "not run", ran |-> what]
    IN IF indices = << >>
         THEN fail("none", topo, {})
       ELSE IF Cardinality(DOMAIN input) # Cardinality(DOMAIN indices)
                 \/ ~is_valid(permutation, n)
         THEN fail("assertion", topo, {"router"})
       ELSE Eval(get_as_waksman_routing(permutation), LAMBDA route :
            Eval(valid_as_waksman_routing(permutation, route), LAMBDA v :
              [error |-> IF v THEN "none" ELSE "runtime_error",
               topology |-> topo, routing |-> route, valid |-> v,
               ran |-> {"router", "validator"}]))

\* Lines 146-170: the assertions, the topology, the router and the
\* validator. The result names the failure, if any, and what was run.
Entry(input, indices) ==
    LET n == Cardinality(DOMAIN input)
        topo == generate_as_waksman_topology(n)
        permutation == [i \in Rows(n) |-> indices[i]]
        fail(e, t) == [error |-> e, topology |-> t, routing |-> << >>,
                       valid |-> "not run", ran |-> {}]
    IN IF ~Assertion(Cardinality(DOMAIN input) = Cardinality(DOMAIN indices)
                    \/ indices = << >>)
         THEN fail("assertion", << >>)
       ELSE IF indices = << >>
         THEN [fail("none", topo) EXCEPT !.routing = << >>]
       ELSE IF ~Assertion(is_valid(permutation, n))
         THEN fail("assertion", topo)
       ELSE Eval(get_as_waksman_routing(permutation), LAMBDA route :
            Eval(valid_as_waksman_routing(permutation, route), LAMBDA v :
              [error |-> IF v THEN "none" ELSE "runtime_error",
               topology |-> topo, routing |-> route, valid |-> v,
               ran |-> {"router", "validator"}]))

\* the input vectors tried for n packets: distinct words, and words that
\* repeat
Inputs(n) == { [i \in Rows(n) |-> 10 + i], [i \in Rows(n) |-> i % 2] }

\* the permutation_indices tried for n packets: none, every bijection, and
\* for small n every other index list of length 1..n+1
IndexLists(n) ==
    {<< >>}
      \cup { p \in [Rows(n) -> Rows(n)] : is_valid(p, n) }
      \cup UNION { [Rows(m) -> Rows(m)] : m \in {k \in 1 .. (n + 1) : n <= MaxBadN} }

\* the call waksman_permute_vector(input, indices, cond_swap) up to the
\* column loop
Call(p, input, indices) ==
    /\ pc[p] = "idle"
    /\ \E e \in {Entry(input, indices)} :
       /\ input_vector' = [input_vector EXCEPT ![p] = input]
       /\ permutation_indices' = [permutation_indices EXCEPT ![p] = indices]
       /\ topology' = [topology EXCEPT ![p] = e.topology]
       /\ routing' = [routing EXCEPT ![p] = e.routing]
       /\ valid' = [valid EXCEPT ![p] = e.valid]
       /\ ran' = [ran EXCEPT ![p] = e.ran]
       /\ error' = [error EXCEPT ![p] = e.error]
       /\ IF e.error # "none"
            THEN /\ pc' = [pc EXCEPT ![p] = "error"]
                 /\ UNCHANGED <<current_vector, next_vector>>
            ELSE /\ pc' = [pc EXCEPT ![p] =
                        IF LoopCond(0, num_packets) THEN "loop" ELSE "return"]
                 /\ current_vector' = [current_vector EXCEPT ![p] = input]
                 /\ next_vector' = [next_vector EXCEPT ![p] =
                        [i \in Rows(num_packets) |-> 0]]
       /\ UNCHANGED <<num_packets, column_idx, writes, trace, harnessVars>>

\* the Evaluator permutes with a secret permutation
CallEvaluator ==
    /\ pc["Evaluator"] = "idle"
    /\ \E input \in Inputs(num_packets), indices \in IndexLists(num_packets) :
          Call("Evaluator", input, indices)

\* the Garbler runs the network with no permutation
CallGarbler ==
    Call("Garbler", [i \in Rows(num_packets) |-> 20 + i], << >>)

\* one iteration of the column loop (lines 177-201)
ColumnStep(p) ==
    /\ pc[p] = "loop"
    /\ \E s \in {RowScan([cur |-> current_vector[p], nxt |-> next_vector[p],
                           cnt |-> [i \in Rows(num_packets) |-> 0],
                           trace |-> trace[p], ok |-> TRUE],
                          topology[p][column_idx[p]], routing[p],
                          column_idx[p], 0)} :
       /\ writes' = [writes EXCEPT ![p] = s.cnt]
       /\ trace' = [trace EXCEPT ![p] = s.trace]
       /\ IF s.ok
            THEN \* std::swap(current_vector, next_vector)
                 /\ current_vector' = [current_vector EXCEPT ![p] = s.nxt]
                 /\ next_vector' = [next_vector EXCEPT ![p] = s.cur]
                 /\ column_idx' = [column_idx EXCEPT ![p] = @ + 1]
                 /\ pc' = [pc EXCEPT ![p] =
                        IF LoopCond(column_idx[p] + 1, num_packets)
                          THEN "loop" ELSE "return"]
                 /\ UNCHANGED error
            ELSE /\ current_vector' = [current_vector EXCEPT ![p] = s.cur]
                 /\ next_vector' = [next_vector EXCEPT ![p] = s.nxt]
                 /\ pc' = [pc EXCEPT ![p] = "error"]
                 /\ error' = [error EXCEPT ![p] = "assertion"]
                 /\ UNCHANGED column_idx
       /\ UNCHANGED <<num_packets, input_vector, permutation_indices, topology,
                      routing, valid, ran, harnessVars>>

\* return current_vector (line 203)
Return(p) ==
    /\ pc[p] = "return"
    /\ pc' = [pc EXCEPT ![p] = "done"]
    /\ UNCHANGED <<num_packets, input_vector, permutation_indices, topology,
                   routing, valid, ran, current_vector, next_vector,
                   column_idx, writes, trace, error, harnessVars>>

\* the rows of the top ports of the switches of a column: the ports of a
\* switch are the two cells of adjacent rows whose destinations differ
TopPorts(topo_col) ==
    LET port(q) == topo_col[q][1] # topo_col[q][2]
    IN { x \in DOMAIN topo_col :
           port(x) /\ Cardinality({ q \in DOMAIN topo_col : q < x /\ port(q) }) % 2 = 0 }

\* every assignment of a mode to every switch of the network for n packets
Routings(n) ==
    Eval(generate_as_waksman_topology(n), LAMBDA topo :
      LET positions == UNION { {c} \X TopPorts(topo[c]) : c \in DOMAIN topo }
      IN { [c \in DOMAIN topo |-> [x \in TopPorts(topo[c]) |-> bits[<<c, x>>]]] :
             bits \in [positions -> BOOLEAN] })

PermutationsOf(n) == { p \in [Rows(n) -> Rows(n)] : is_valid(p, n) }

\* largest number of packets for which every routing is validated
MaxValN == 4

\* valid_as_waksman_routing(permutation, routing) for the permutation and the
\* routing the Evaluator holds, before the network is run on them
ValidateRouting ==
    /\ pc["Evaluator"] = "validate"
    /\ valid' = [valid EXCEPT !["Evaluator"] =
           valid_as_waksman_routing(permutation_indices["Evaluator"],
                                    routing["Evaluator"])]
    /\ ran' = [ran EXCEPT !["Evaluator"] = {"validator"}]
    /\ pc' = [pc EXCEPT !["Evaluator"] =
           IF LoopCond(0, num_packets) THEN "loop" ELSE "return"]
    /\ UNCHANGED <<num_packets, input_vector, permutation_indices, topology,
                   routing, current_vector, next_vector, column_idx, writes,
                   trace, error, harnessVars>>

(***************************************************************************)
(* Label algebra and the test harness (tests/test_emp_interface.cpp).      *)
(* A label is LAMBDA_BYTES bytes; the model keeps LambdaBits bytes of one  *)
(* bit each.                                                               *)
(***************************************************************************)
LambdaBits == 2
\* accesses a tester makes
MaxAccesses == 2
\* the TEST cases of the file, run one after the other in one process
NumTests == 3

RECURSIVE Pow2(_)
Pow2(k) == IF k = 0 THEN 1 ELSE 2 * Pow2(k - 1)

BitAt(val, i) == (val \div Pow2(i)) % 2

Labels == [Rows(LambdaBits) -> {0, 1}]

\* secure_random(Delta.label), then Delta.label[0] |= 1 (lines 59-60)
Deltas == { d \in Labels : d[0] = 1 }

\* a slip: the word is encoded most significant bit first
compute_encoding_word_msb_first(word, val, Delta) ==
    LET w == Cardinality(DOMAIN word)
    IN [i \in DOMAIN word |->
          IF BitAt(val, w - 1 - i) = 0 THEN word[i]
          ELSE [b \in Rows(LambdaBits) |-> (word[i][b] + Delta[b]) % 2]]

\* compute_encoding for a BitType (lines 5-16): byte-wise XOR with Delta
\* when val is not 0
compute_encoding_bit(bit, val, Delta) ==
    IF val = 0 THEN bit
    ELSE [i \in Rows(LambdaBits) |-> (bit[i] + Delta[i]) % 2]

\* compute_encoding for a WordType (lines 18-27): bit i is encoded with
\* val & 1 after i shifts
compute_encoding_word(word, val, Delta) ==
    [i \in DOMAIN word |-> compute_encoding_bit(word[i], BitAt(val, i), Delta)]

\* The encoding relation of the label algebra: the label of value v on a
\* wire with zero-label L0 is L0 xor v.Delta; a Word carries bit i of its
\* value on wire i.
Reencode(zero_word, val, Delta) ==
    [i \in DOMAIN zero_word |->
        [b \in Rows(LambdaBits) |-> (zero_word[i][b] + BitAt(val, i) * Delta[b]) % 2]]

\* the value a Word of labels carries, given the zero-labels of its wires
RECURSIVE Decode(_, _, _)
Decode(word, zero_word, w) ==
    IF w = 0 THEN 0
    ELSE (IF word[w - 1] = zero_word[w - 1] THEN 0 ELSE Pow2(w - 1))
           + Decode(word, zero_word, w - 1)

\* a slip: a later call installs the new offset
set_Delta_overwrite(cell, Delta) == [cell |-> Delta, error |-> "none"]

\* set_Delta: the offset is installed once; a later call fails and leaves it
set_Delta(cell, Delta) ==
    IF cell # << >> THEN [cell |-> cell, error |-> "ConfigError"]
    ELSE [cell |-> Delta, error |-> "none"]

\* ORAM access on plain values: the word at addr before the access, and the
\* memory after it
oram_access(mem, addr, is_write, new_data) ==
    [old |-> mem[addr],
     mem |-> IF is_write = 1 THEN [mem EXCEPT ![addr] = new_data] ELSE mem]

\* the labels secure_random yields for the wire numbered k
RandomLabel(seed, k) == [b \in Rows(LambdaBits) |-> BitAt(seed + k, b)]

Seeds == {0, 1}

\* the widths of the testers of the model (the tests use 4, 8 and 3, 6)
TesterParams == { [addr_width |-> 1, word_width |-> 2] }

\* The loop of the constructor that fills old_data_vals from the reference
\* memory (lines 65-73), from access i on.
RECURSIVE ReferenceLoop(_, _, _, _, _, _)
ReferenceLoop(i, addr_vals, is_write_vals, new_data_vals, old_data_vals, ref_mem_vals) ==
    IF i >= Cardinality(DOMAIN addr_vals) THEN old_data_vals
    ELSE Eval([old_data_vals EXCEPT ![i] = ref_mem_vals[addr_vals[i]]],
              LAMBDA olds :
         Eval(IF is_write_vals[i] # 0
                THEN [ref_mem_vals EXCEPT ![addr_vals[i]] = new_data_vals[i]]
                ELSE ref_mem_vals,
              LAMBDA mem :
                ReferenceLoop(i + 1, addr_vals, is_write_vals, new_data_vals,
                              olds, mem)))

\* PicoGRAMTester::PicoGRAMTester (lines 44-85), once set_Delta returned
NewTester(Delta, params, n, addr_vals, is_write_vals, new_data_vals, seed) ==
    [Delta |-> Delta,
     addr_width |-> params.addr_width,
     word_width |-> params.word_width,
     num_accesses |-> n,
     addr_vals |-> addr_vals,
     is_write_vals |-> is_write_vals,
     new_data_vals |-> new_data_vals,
     old_data_vals |->
         ReferenceLoop(0, addr_vals, is_write_vals, new_data_vals,
                       [i \in Rows(n) |-> 0],
                       [a \in Rows(Pow2(params.addr_width)) |-> 0]),
     addr_labels |->
         [i \in Rows(n) |-> [j \in Rows(params.addr_width) |->
             RandomLabel(seed, i + j)]],
     is_write_labels |-> [i \in Rows(n) |-> RandomLabel(seed, i + 1)],
     new_data_labels |->
         [i \in Rows(n) |-> [j \in Rows(params.word_width) |->
             RandomLabel(seed, 2 * i + j)]],
     old_data_labels |->
         [i \in Rows(n) |-> [j \in Rows(params.word_width) |->
             [b \in Rows(LambdaBits) |-> 0]]],
     seed |-> seed]

\* a TEST constructs its PicoGRAMTester
ConstructTester ==
    /\ hpc \in {"no test", "passed", "failed", "ConfigError"}
    /\ tests_run < NumTests
    /\ tests_run' = tests_run + 1
    /\ \E Delta \in Deltas :
         \E installed \in {set_Delta(installed_Delta, Delta)} :
           /\ installed_Delta' = installed.cell
           /\ IF installed.error # "none"
                THEN /\ hpc' = installed.error
                     /\ tester' = [Delta |-> Delta]
                     /\ oram_mem' = << >>
                ELSE /\ hpc' = "running"
                     /\ \E params \in TesterParams, seed \in Seeds :
                        \E addr_vals \in [Rows(MaxAccesses) -> Rows(Pow2(params.addr_width))],
                           is_write_vals \in [Rows(MaxAccesses) -> {0, 1}],
                           new_data_vals \in [Rows(MaxAccesses) -> Rows(Pow2(params.word_width))] :
                          /\ tester' = NewTester(Delta, params, MaxAccesses, addr_vals,
                                                 is_write_vals, new_data_vals, seed)
                          /\ oram_mem' = [a \in Rows(Pow2(params.addr_width)) |-> 0]
    /\ garbled' = 0
    /\ evaluated' = 0
    /\ old_data' = << >>
    /\ ref_old_data' = << >>
    /\ UNCHANGED driverVars

\* one iteration of the loop of garble() (lines 92-98): the Garbler's access
\* returns the zero-labels of old_data
GarbleAccess ==
    /\ hpc = "running"
    /\ garbled < tester.num_accesses
    /\ tester' = [tester EXCEPT !.old_data_labels[garbled] =
           [j \in Rows(tester.word_width) |->
               RandomLabel(tester.seed, 3 * garbled + j + 1)]]
    /\ garbled' = garbled + 1
    /\ UNCHANGED <<installed_Delta, tests_run, hpc, evaluated, oram_mem,
                   old_data, ref_old_data, driverVars>>

\* one iteration of the loop of eval() (lines 107-118), once the Garbler has
\* made the access
EvalAccess ==
    /\ hpc = "running"
    /\ evaluated < garbled
    /\ LET i == evaluated
           addr == compute_encoding_word(tester.addr_labels[i],
                                         tester.addr_vals[i], tester.Delta)
           is_write == compute_encoding_bit(tester.is_write_labels[i],
                                            tester.is_write_vals[i], tester.Delta)
           new_data == compute_encoding_word(tester.new_data_labels[i],
                                             tester.new_data_vals[i], tester.Delta)
       IN \E acc \in {oram_access(oram_mem,
                          Decode(addr, tester.addr_labels[i], tester.addr_width),
                          IF is_write = tester.is_write_labels[i] THEN 0 ELSE 1,
                          Decode(new_data, tester.new_data_labels[i],
                                 tester.word_width))} :
          \E got \in {Reencode(tester.old_data_labels[i], acc.old, installed_Delta)},
             ref \in {compute_encoding_word(tester.old_data_labels[i],
                                            tester.old_data_vals[i], tester.Delta)} :
            /\ oram_mem' = acc.mem
            /\ old_data' = (i :> got) @@ old_data
            /\ ref_old_data' = (i :> ref) @@ ref_old_data
            /\ IF got # ref
                 THEN hpc' = "failed" /\ evaluated' = evaluated
                 ELSE /\ evaluated' = evaluated + 1
                      /\ hpc' = IF evaluated + 1 = tester.num_accesses
                                  THEN "passed" ELSE "running"
    /\ UNCHANGED <<installed_Delta, tests_run, tester, garbled, driverVars>>

(***************************************************************************)
(* The driver run by both parties on num_packets packets.                  *)
(***************************************************************************)
DriverIdle ==
    /\ pc = [p \in Party |-> "idle"]
    /\ input_vector = [p \in Party |-> << >>]
    /\ permutation_indices = [p \in Party |-> << >>]
    /\ topology = [p \in Party |-> << >>]
    /\ routing = [p \in Party |-> << >>]
    /\ valid = [p \in Party |-> "not run"]
    /\ ran = [p \in Party |-> {}]
    /\ current_vector = [p \in Party |-> << >>]
    /\ next_vector = [p \in Party |-> << >>]
    /\ column_idx = [p \in Party |-> 0]
    /\ writes = [p \in Party |-> << >>]
    /\ trace = [p \in Party |-> << >>]
    /\ error = [p \in Party |-> "none"]

HarnessIdle ==
    /\ installed_Delta = << >>
    /\ tests_run = 0
    /\ hpc = "no test"
    /\ tester = << >>
    /\ garbled = 0
    /\ evaluated = 0
    /\ oram_mem = << >>
    /\ old_data = << >>
    /\ ref_old_data = << >>

Init ==
    /\ num_packets \in 1 .. MaxN
    /\ DriverIdle
    /\ HarnessIdle

Next ==
    \/ CallEvaluator
    \/ CallGarbler
    \/ \E p \in Party : ColumnStep(p)
    \/ \E p \in Party : Return(p)

Spec == Init /\ [][Next]_vars

(***************************************************************************)
(* The validator against the network: any permutation, any routing, the    *)
(* identity vector as input.                                               *)
(***************************************************************************)
InitValidate ==
    /\ num_packets \in 1 .. MaxValN
    /\ \E permutation \in PermutationsOf(num_packets), r \in Routings(num_packets) :
         LET identity == [i \in Rows(num_packets) |-> i]
             only(x, dflt) == [p \in Party |-> IF p = "Evaluator" THEN x ELSE dflt]
         IN /\ pc = only("validate", "idle")
            /\ input_vector = only(identity, << >>)
            /\ permutation_indices = only(permutation, << >>)
            /\ topology = only(generate_as_waksman_topology(num_packets), << >>)
            /\ routing = only(r, << >>)
            /\ current_vector = only(identity, << >>)
            /\ next_vector = only([i \in Rows(num_packets) |-> 0], << >>)
    /\ valid = [p \in Party |-> "not run"]
    /\ ran = [p \in Party |-> {}]
    /\ column_idx = [p \in Party |-> 0]
    /\ writes = [p \in Party |-> << >>]
    /\ trace = [p \in Party |-> << >>]
    /\ error = [p \in Party |-> "none"]
    /\ HarnessIdle

NextValidate ==
    \/ ValidateRouting
    \/ ColumnStep("Evaluator")
    \/ Return("Evaluator")

SpecValidate == InitValidate /\ [][NextValidate]_vars

(***************************************************************************)
(* The test process: the TEST cases, one after the other.                  *)
(***************************************************************************)
InitHarness ==
    /\ num_packets = 1
    /\ DriverIdle
    /\ HarnessIdle

NextHarness ==
    \/ ConstructTester
    \/ GarbleAccess
    \/ EvalAccess

SpecHarness == InitHarness /\ [][NextHarness]_vars

(***************************************************************************)
(* Properties of the driver.                                               *)
(***************************************************************************)
FromSeq(q) == [i \in Rows(Len(q)) |-> q[i + 1]]

Called(p) == pc[p] # "idle"

\* the permutation the party passed, when it passed a bijection
Bijective(p) ==
    /\ permutation_indices[p] # << >>
    /\ is_valid(permutation_indices[p], num_packets)

Positions(t) == [i \in 1 .. Len(t) |-> <<t[i][1], t[i][2]>>]

IsPrefix(a, b) == Len(a) <= Len(b) /\ \A i \in 1 .. Len(a) : a[i] = b[i]

\* C1: with a bijective permutation the call returns a vector of the length
\* of the input whose entry permutation[i] is input[i], for every i; that is,
\* entry j is input[inverse(permutation)[j]].
C1_PermutesInput ==
    \A p \in Party :
        (pc[p] = "done" /\ Bijective(p)) =>
            /\ DOMAIN current_vector[p] = Rows(num_packets)
            /\ \A i \in Rows(num_packets) :
                 current_vector[p][permutation_indices[p][i]] = input_vector[p][i]
            /\ current_vector[p] =
                 [j \in Rows(num_packets) |->
                    input_vector[p][inverse(permutation_indices[p])[j]]]

\* the scenario N = 4, permutation [1,3,0,2], [A,B,C,D] -> [C,A,D,B]
C1_Witness ==
    /\ pc["Evaluator"] = "done"
    /\ permutation_indices["Evaluator"] = FromSeq(<<1, 3, 0, 2>>)
    /\ input_vector["Evaluator"] = FromSeq(<<10, 11, 12, 13>>)
    /\ current_vector["Evaluator"] = FromSeq(<<12, 10, 13, 11>>)

C3_SameSwapPositions ==
    /\ \A p, q \in Party :
         column_idx[p] <= column_idx[q] =>
             IsPrefix(Positions(trace[p]), Positions(trace[q]))
    /\ \A p \in Party :
         /\ \A i, j \in 1 .. Len(trace[p]) :
              i < j => \/ trace[p][i][1] < trace[p][j][1]
                       \/ /\ trace[p][i][1] = trace[p][j][1]
                          /\ trace[p][i][2] < trace[p][j][2]
         /\ pc[p] \in {"loop", "return", "done"} =>
              { Positions(trace[p])[i] : i \in 1 .. Len(trace[p]) }
                = UNION { {c} \X TopPorts(topology[p][c]) :
                            c \in Rows(column_idx[p]) }
         /\ pc[p] = "done" =>
              column_idx[p] = as_waksman_num_columns(num_packets)

\* both parties finished on five packets, the Garbler with no permutation and
\* the Evaluator with one that crossed a switch: eight calls each
C3_Witness ==
    /\ num_packets = 5
    /\ pc = [p \in Party |-> "done"]
    /\ Len(trace["Garbler"]) = 8
    /\ Positions(trace["Evaluator"]) = Positions(trace["Garbler"])
    /\ \E i \in 1 .. 8 : trace["Evaluator"][i][3] /\ ~trace["Garbler"][i][3]
    /\ input_vector["Evaluator"] # input_vector["Garbler"]

\* C4: the row loop of a column writes every slot of next_vector exactly
\* once, whatever the routing.
C4_EverySlotWrittenOnce ==
    \A p \in Party :
        writes[p] # << >> =>
            /\ DOMAIN writes[p] = Rows(num_packets)
            /\ \A slot \in Rows(num_packets) : writes[p][slot] = 1

\* the column 1 for five packets (pass-through rows and a crossed switch)
\* was executed
C4_Witness ==
    /\ num_packets = 5
    /\ column_idx["Evaluator"] = 2
    /\ \E i \in 1 .. Len(trace["Evaluator"]) :
         trace["Evaluator"][i][1] = 1 /\ trace["Evaluator"][i][3]
    /\ \E x \in Rows(5) : topology["Evaluator"][1][x][1] = topology["Evaluator"][1][x][2]
    /\ \A slot \in Rows(5) : writes["Evaluator"][slot] = 1

\* the reference values of num_columns
RefValues == <<1, 3, 3, 5, 5, 5, 5>>

\* num_columns(1) = 0; num_columns(N) = 2k - 1 with 2^(k-1) < N <= 2^k for
\* N >= 2; the topology has num_columns columns of N rows; the column loop
\* reads a column of the topology
C7_Common ==
    /\ as_waksman_num_columns(1) = 0
    /\ \A n \in 2 .. (MaxN + 3) :
         LET k == (as_waksman_num_columns(n) + 1) \div 2
         IN /\ as_waksman_num_columns(n) = 2 * k - 1
            /\ Pow2(k - 1) < n
            /\ n <= Pow2(k)
    /\ \A p \in Party :
         /\ (Called(p) /\ error[p] = "none") =>
              /\ DOMAIN topology[p] = Rows(as_waksman_num_columns(num_packets))
              /\ \A c \in DOMAIN topology[p] :
                   DOMAIN topology[p][c] = Rows(num_packets)
         /\ pc[p] = "loop" => column_idx[p] \in DOMAIN topology[p]

\* C7 as stated: the reference values 1,3,3,5,5,5,5 are the values of
\* num_columns for N = 2..7.
C7_RefValuesFor2To7 ==
    /\ C7_Common
    /\ [i \in 1 .. 6 |-> as_waksman_num_columns(i + 1)] = RefValues

\* C7, amended: num_columns(1) = 0, num_columns(N) = 2*ceil(log2 N) - 1 for
\* N >= 2, which gives the seven reference values 1,3,3,5,5,5,5 for
\* N = 2..8; the topology has num_columns(N) columns of N rows each and every
\* topology[column_idx][row_idx] the driver reads is in bounds.
C7_RefValuesFor2To8 ==
    /\ C7_Common
    /\ [i \in 1 .. 7 |-> as_waksman_num_columns(i + 1)] = RefValues

\* the last column of the topology for five packets is being read
C7_Witness ==
    /\ num_packets = 5
    /\ pc["Evaluator"] = "loop"
    /\ column_idx["Evaluator"] = 4
    /\ Cardinality(DOMAIN topology["Evaluator"]) = 5

BadIndices(p) ==
    /\ permutation_indices[p] # << >>
    /\ \/ Cardinality(DOMAIN permutation_indices[p]) # num_packets
       \/ ~is_valid(permutation_indices[p], num_packets)

\* C9: a call with a non-empty index list that is of another length than the
\* input or is no bijection fails with an error before the router runs and
\* before any cond_swap, and returns no vector.
C9_BadIndicesFailEarly ==
    \A p \in Party :
        (Called(p) /\ BadIndices(p)) =>
            /\ pc[p] = "error"
            /\ error[p] = "assertion"
            /\ ran[p] = {}
            /\ trace[p] = << >>
            /\ current_vector[p] = << >>

\* an index list of the right length that repeats an index was refused
C9_Witness ==
    /\ num_packets = 3
    /\ permutation_indices["Evaluator"] = FromSeq(<<0, 0, 1>>)
    /\ pc["Evaluator"] = "error"

\* C10: a call with no permutation runs neither router nor validator, passes
\* control false at every switch, and returns the input in its order; for one
\* packet it executes no column.
C10_NoPermutationIsIdentity ==
    \A p \in Party :
        (Called(p) /\ permutation_indices[p] = << >>) =>
            /\ ran[p] = {}
            /\ valid[p] = "not run"
            /\ error[p] = "none"
            /\ \A i \in 1 .. Len(trace[p]) : trace[p][i][3] = FALSE
            /\ pc[p] = "done" => current_vector[p] = input_vector[p]
            /\ num_packets = 1 => column_idx[p] = 0 /\ trace[p] = << >>

\* the Garbler ran all five columns for five packets with no permutation
C10_Witness ==
    /\ num_packets = 5
    /\ pc["Garbler"] = "done"
    /\ column_idx["Garbler"] = 5
    /\ Len(trace["Garbler"]) = 8
    /\ current_vector["Garbler"] = [i \in Rows(5) |-> 20 + i]

(***************************************************************************)
(* Properties of the harness.                                              *)
(***************************************************************************)
\* the word a reference memory (all words 0 at first; a write stores
\* new_data at addr, a read changes nothing) holds at the address of access i
\* right before access i
ReferenceBefore(i) ==
    LET writesBefore == { j \in Rows(i) : /\ tester.addr_vals[j] = tester.addr_vals[i]
                                          /\ tester.is_write_vals[j] = 1 }
    IN IF writesBefore = {} THEN 0
       ELSE tester.new_data_vals[CHOOSE j \in writesBefore :
                                    \A k \in writesBefore : k <= j]

\* C5: the old_data the Evaluator gets at access i is the Garbler's old_data
\* zero-labels of access i re-encoded under Delta with the word the reference
\* memory held at addr right before access i; it is the Word eval() compares
\* it with.
C5_OldDataMatchesReference ==
    \A i \in DOMAIN old_data :
        /\ tester.old_data_vals[i] = ReferenceBefore(i)
        /\ old_data[i] = compute_encoding_word(tester.old_data_labels[i],
                                              ReferenceBefore(i), tester.Delta)
        /\ old_data[i] = Reencode(tester.old_data_labels[i],
                                  ReferenceBefore(i), tester.Delta)
        /\ old_data[i] = ref_old_data[i]

\* access 0 wrote 2 at address 1 and access 1, a read of address 1, got the
\* labels of 2
C5_Witness ==
    /\ evaluated = 2
    /\ tester.addr_vals = FromSeq(<<1, 1>>)
    /\ tester.is_write_vals = FromSeq(<<1, 0>>)
    /\ tester.new_data_vals[0] = 2
    /\ Decode(old_data[1], tester.old_data_labels[1], tester.word_width) = 2
    /\ hpc = "passed"

====
